---- MODULE Spec2Model ----
(***************************************************************************)
(* Rule E2508 (cfnlint/rules/resources/iam/Limits.py): IAM resource limits. *)
(* match(cfn) walks the dispatch table, selects the resources of each type, *)
(* and runs the type's checks on every resource's Properties.  One step of  *)
(* the model is one check call of the inner loop (line 173).                *)
(*                                                                         *)
(* Values are tagged records: [t |-> "list", len |-> n] is a Python list of *)
(* n items, "str"/"map" a string / dict, "none" Python's None.  JSON        *)
(* documents carry the number of characters their scalars serialize to.    *)
(***************************************************************************)
EXTENDS Integers, Sequences, FiniteSets, TLC

VARIABLES
    template,        \* the template under test (resources and what it resolves)
    cfn,             \* the template object passed to the running call of match
    pc,              \* "idle", "loop" (inside match) or "raised"
    ti, ri, ci,      \* position of the three nested loops of match
    path, properties,\* locals of match, lines 170-171
    matches,         \* local of match, line 149
    results,         \* what the calls of match on template returned so far
    resolver_calls,  \* history: calls of cfn.get_object_without_conditions in this call
    origin,          \* history: for each element of matches, the call it came from
    called,          \* history: the check calls of the current call of match
    last             \* history: the last check call and its outcome

vars == <<template, cfn, pc, ti, ri, ci, path, properties, matches, origin,
          results, resolver_calls, called, last>>

----------------------------------------------------------------------------
(* Bounds of the model *)

MaxListLen == 11
MaxBranches == 2
MaxResources == 3
MaxCalls == 2
MaxStatementLen == 2058

(* Limits hard-coded in the checks *)

ManagedPolicyArnsLimit == 10
RolesLimit == 1
GroupsLimit == 10
TrustPolicyLimit == 2048

----------------------------------------------------------------------------
(* Python values *)

None == [t |-> "none", len |-> 0]
PyList(n) == [t |-> "list", len |-> n]
PyStr(n) == [t |-> "str", len |-> n]
PyMap(n) == [t |-> "map", len |-> n]

\* isinstance(value, list)
IsList(value) == value.t = "list"

\* dict.get(key): the value, or None when the key is missing
DictGet(d, key) == IF key \in DOMAIN d THEN d[key] ELSE None

\* '%s' % v for a bool
BoolText(v) == IF v THEN "True" ELSE "False"

\* RuleMatch(path, message); branch is the index of the property set that
\* produced it (0 when the check does not iterate property sets)
RuleMatch(p, message, branch) == [path |-> p, message |-> message, branch |-> branch]

\* path + [name]: a new list, path itself is left as it was
ExtendPathDropsProperty(p, name) == p
ExtendPath(p, name) == p \o <<name>>

----------------------------------------------------------------------------
(* Scenario text, lines 57, 88, 119.  A Scenario is None or an ordered      *)
(* mapping, modelled as a sequence of <<condition name, bool>> pairs in     *)
(* items() order.                                                          *)

NoScenario == [none |-> TRUE, items |-> <<>>]
Scenario(items) == [none |-> FALSE, items |-> items]

ConditionText(item) == "when condition \"" \o item[1] \o "\" is " \o BoolText(item[2])

RECURSIVE JoinAnd(_)
JoinAnd(texts) ==
    IF texts = <<>> THEN ""
    ELSE IF Len(texts) = 1 THEN texts[1]
    ELSE texts[1] \o " and " \o JoinAnd(Tail(texts))

scenario_text(items) == JoinAnd([i \in 1..Len(items) |-> ConditionText(items[i])])

\* message.format(scenario_text) with message = base + ' when {0}'
ScenarioMessage(base, items) == base \o " when " \o scenario_text(items)

----------------------------------------------------------------------------
(* The three list-length checks share one body (lines 45-64, 76-95,        *)
(* 107-126): property name, limit and base message differ.                 *)

over_limit_ge(value, limit) == IsList(value) /\ value.len >= limit
over_limit_untyped(value, limit) == value.len > limit
over_limit(value, limit) == IsList(value) /\ value.len > limit

BranchMatch(property_set, k, p, name, base) ==
    IF property_set.Scenario.none
    THEN RuleMatch(ExtendPath(p, name), base, k)
    ELSE RuleMatch(ExtendPath(p, name),
                   ScenarioMessage(base, property_set.Scenario.items), k)

RECURSIVE LimitLoop(_, _, _, _, _, _)
LimitLoop(property_sets, k, p, name, limit, base) ==
    IF k > Len(property_sets) THEN <<>>
    ELSE LET value == DictGet(property_sets[k].Object, name)
             here == IF over_limit(value, limit)
                     THEN <<BranchMatch(property_sets[k], k, p, name, base)>>
                     ELSE <<>>
         IN here \o LimitLoop(property_sets, k + 1, p, name, limit, base)

property_present_always(props, name) == TRUE
property_present(props, name) == name \in DOMAIN props

\* The outcome of a check call: the list it returns, whether it called
\* cfn.get_object_without_conditions, and whether an exception left it.
LimitCheck(props, p, property_sets, name, limit, base) ==
    IF ~property_present(props, name)
    THEN [matches |-> <<>>, resolved |-> FALSE, raised |-> FALSE]
    ELSE [matches |-> LimitLoop(property_sets, 1, p, name, limit, base),
          resolved |-> TRUE, raised |-> FALSE]

ManagedPolicyArnsMessage == "IAM resources cannot have more than 10 ManagedPolicyArns"
RolesMessage == "InstanceProfile can only have one role attached"
GroupsMessage == "User can be a member of maximum 10 groups"
TrustPolicyMessage == "Role trust policy JSON text cannot be longer than 2048 characters"

check_managed_policy_arns(props, p, property_sets) ==
    LimitCheck(props, p, property_sets, "ManagedPolicyArns",
               ManagedPolicyArnsLimit, ManagedPolicyArnsMessage)

check_instance_profile_roles(props, p, property_sets) ==
    LimitCheck(props, p, property_sets, "Roles", RolesLimit, RolesMessage)

check_user_groups(props, p, property_sets) ==
    LimitCheck(props, p, property_sets, "Groups", GroupsLimit, GroupsMessage)

----------------------------------------------------------------------------
(* json.dumps(value, default=self._serialize_date), line 137.  A document   *)
(* is a tree of                                                            *)
(*   [t |-> "str", n, esc]  a string of n characters, esc more once escaped *)
(*   [t |-> "lit", n]       a number, true, false or null of n characters   *)
(*   [t |-> "date", iso]    a datetime.date whose isoformat() has iso chars *)
(*   [t |-> "object"]       any other object                               *)
(*   [t |-> "list", items]  and  [t |-> "map", items], items holding        *)
(*                          [key |-> characters of the key, value |-> tree] *)
(* The outcome is [raised, len]: TypeError, or the length of the text.      *)

JStr(n, esc) == [t |-> "str", n |-> n, esc |-> esc]
JLit(n) == [t |-> "lit", n |-> n]
JDate(iso) == [t |-> "date", iso |-> iso]
JObject == [t |-> "object"]
JList(items) == [t |-> "list", items |-> items]
JMap(items) == [t |-> "map", items |-> items]
JItem(key, value) == [key |-> key, value |-> value]

Raised == [raised |-> TRUE, len |-> 0]
Text(n) == [raised |-> FALSE, len |-> n]

\* _serialize_date: the isoformat() string of a date, TypeError otherwise;
\* the encoder then writes the returned string between quotes
serialize_date_strict(obj) == Raised
serialize_date(obj) ==
    IF obj.t = "date" THEN Text(obj.iso + 2) ELSE Raised

RECURSIVE JsonDumps(_)
RECURSIVE JsonItems(_, _, _)

\* items i.. of a list (keyed = FALSE) or map (keyed = TRUE), joined by ", "
JsonItems(items, i, keyed) ==
    IF i > Len(items) THEN Text(0)
    ELSE LET head == JsonDumps(IF keyed THEN items[i].value ELSE items[i])
             rest == JsonItems(items, i + 1, keyed)
             key == IF keyed THEN items[i].key + 2 + 2 ELSE 0
             sep == IF i < Len(items) THEN 2 ELSE 0
         IN IF head.raised \/ rest.raised THEN Raised
            ELSE Text(key + head.len + sep + rest.len)

JsonDumps(value) ==
    CASE value.t = "str" -> Text(value.n + value.esc + 2)
      [] value.t = "lit" -> Text(value.n)
      [] value.t = "list" ->
            LET body == JsonItems(value.items, 1, FALSE)
            IN IF body.raised THEN Raised ELSE Text(body.len + 2)
      [] value.t = "map" ->
            LET body == JsonItems(value.items, 1, TRUE)
            IN IF body.raised THEN Raised ELSE Text(body.len + 2)
      [] OTHER -> serialize_date(value)

too_long_ge(n) == n >= TrustPolicyLimit
too_long(n) == n > TrustPolicyLimit

check_role_assume_role_policy_document(props, p, property_sets) ==
    IF "AssumeRolePolicyDocument" \notin DOMAIN props
    THEN [matches |-> <<>>, resolved |-> FALSE, raised |-> FALSE]
    ELSE LET text == JsonDumps(props["AssumeRolePolicyDocument"])
         IN IF text.raised
            THEN [matches |-> <<>>, resolved |-> FALSE, raised |-> TRUE]
            ELSE [matches |->
                     IF too_long(text.len)
                     THEN <<RuleMatch(ExtendPath(p, "AssumeRolePolicyDocument"),
                                      TrustPolicyMessage, 0)>>
                     ELSE <<>>,
                  resolved |-> FALSE, raised |-> FALSE]

----------------------------------------------------------------------------
(* Resource types, lines 151-162, and one the rule does not know *)

User == "AWS::IAM::User"
Group == "AWS::IAM::Group"
Role == "AWS::IAM::Role"
InstanceProfile == "AWS::IAM::InstanceProfile"
Policy == "AWS::IAM::Policy"

----------------------------------------------------------------------------
(* Templates.  A resource is [name, Type, HasProperties, Properties,       *)
(* property_sets]; property_sets is what get_object_without_conditions      *)
(* answers for its Properties: a sequence of [Object, Scenario].            *)

ListProperties == {"ManagedPolicyArns", "Groups", "Roles"}
AllProperties == ListProperties \cup {"AssumeRolePolicyDocument"}
AllTypes == {User, Group, Role, InstanceProfile, Policy}
ResourceNames == <<"MyUser", "ResB", "ResC", "ResD", "ResE">>

\* an unresolved property value, e.g. {"Fn::If": [...]}
RawValue == PyMap(1)

BagOf(keys, doc) ==
    [k \in keys |-> IF k = "AssumeRolePolicyDocument" THEN doc ELSE RawValue]

ListLens == {1, 2, MaxListLen - 1, MaxListLen}
BranchValues == {PyList(n) : n \in ListLens} \cup {PyStr(20), PyMap(12)}

\* resolved objects: every list property with one value, or none of them
Objects == {[k \in ListProperties |-> v] : v \in BranchValues}
             \cup {[k \in {} |-> None],
                   [k \in ListProperties |->
                      IF k = "Roles" THEN PyList(1) ELSE PyList(MaxListLen)]}

Scenarios == {NoScenario,
              Scenario(<<<<"IsProd", TRUE>>>>),
              Scenario(<<<<"IsProd", TRUE>>, <<"UseSecondary", FALSE>>>>)}

PropertySet(object, scenario) == [Object |-> object, Scenario |-> scenario]
\* every object without a scenario, a long and a short list under each scenario
ScenarioObjects == {[k \in ListProperties |-> PyList(n)] : n \in {1, MaxListLen}}
PropertySets == {PropertySet(o, NoScenario) : o \in Objects}
                  \cup {PropertySet(o, sc) : o \in ScenarioObjects, sc \in Scenarios}

SeqsUpTo(S, n) == UNION {[1..m -> S] : m \in 0..n}

\* a trust policy {"Version": version, "Statement": "<n characters>"}
PolicyDoc(version, n) ==
    JMap(<<JItem(7, version), JItem(9, JStr(n, 0))>>)

Versions == {JDate(10), JDate(19), JStr(10, 0), JStr(10, 1), JLit(4), JObject,
             JList(<<JStr(10, 0), JObject>>)}
StatementLens == {10, MaxStatementLen} \cup ((TrustPolicyLimit - 44)..(TrustPolicyLimit - 40))
Docs == {PolicyDoc(v, n) : v \in Versions, n \in StatementLens}
          \cup {JStr(TrustPolicyLimit - 2, 0), JStr(TrustPolicyLimit - 1, 0), JObject}

Resource(type, has, bag, sets) ==
    [name |-> "", Type |-> type, HasProperties |-> has, Properties |-> bag,
     property_sets |-> sets]

Named(shapes) == [i \in 1..Len(shapes) |-> [shapes[i] EXCEPT !.name = ResourceNames[i]]]

\* one resource, every combination of property sets
ListBags == {BagOf({}, None), BagOf(ListProperties, None),
             BagOf({"ManagedPolicyArns"}, None), BagOf({"Groups", "Roles"}, None)}
ListShapes == {Resource(type, TRUE, bag, sets) :
                 type \in AllTypes, bag \in ListBags,
                 sets \in SeqsUpTo(PropertySets, MaxBranches)}

\* one resource, every trust policy
LoudSets == <<PropertySet([k \in ListProperties |-> PyList(MaxListLen)], NoScenario)>>
DocShapes == {Resource(type, TRUE, BagOf(keys, doc), LoudSets) :
                type \in AllTypes, doc \in Docs,
                keys \in {{"AssumeRolePolicyDocument"},
                          {"AssumeRolePolicyDocument", "ManagedPolicyArns"}}}

\* several resources of a few shapes each
LoudDoc == PolicyDoc(JDate(10), MaxStatementLen)
QuietSets == <<PropertySet([k \in ListProperties |-> PyList(1)], NoScenario)>>
TwoLoudSets == <<PropertySet([k \in ListProperties |-> PyList(MaxListLen)],
                             Scenario(<<<<"UseBackup", TRUE>>>>)),
                 PropertySet([k \in ListProperties |-> PyList(MaxListLen)],
                             Scenario(<<<<"UseBackup", FALSE>>>>))>>
FewShapes ==
    {Resource(type, TRUE, BagOf(AllProperties, LoudDoc), TwoLoudSets) : type \in AllTypes}
      \cup {Resource(type, TRUE, BagOf(AllProperties, PolicyDoc(JDate(10), 10)), QuietSets) :
               type \in {User, Role}}
      \cup {Resource(type, FALSE, BagOf({}, None), LoudSets) : type \in {User, Role}}
      \cup {Resource(Role, TRUE, BagOf(AllProperties, PolicyDoc(JObject, 10)), LoudSets)}

\* the template of the caller's other calls
OtherTemplate ==
    <<[Resource(User, TRUE, BagOf({"ManagedPolicyArns"}, None), LoudSets)
         EXCEPT !.name = "OtherUser"]>>

Templates ==
    {Named(<<s>>) : s \in ListShapes \cup DocShapes}
      \cup {Named(q) : q \in SeqsUpTo(FewShapes, MaxResources)}

----------------------------------------------------------------------------
(* match, lines 147-175 *)

\* the keys of the types dict in items() order (insertion order)
TypesSorted == <<Group, InstanceProfile, Role, User>>
Types == <<User, Group, Role, InstanceProfile>>

check_list_shared(resource_type) ==
    CASE resource_type = User -> <<"check_managed_policy_arns", "check_user_groups">>
      [] resource_type = Group -> <<"check_managed_policy_arns", "check_user_groups">>
      [] resource_type = Role -> <<"check_managed_policy_arns",
                                   "check_role_assume_role_policy_document">>
      [] resource_type = InstanceProfile -> <<"check_instance_profile_roles">>
check_list(resource_type) ==
    CASE resource_type = User -> <<"check_managed_policy_arns", "check_user_groups">>
      [] resource_type = Group -> <<"check_managed_policy_arns">>
      [] resource_type = Role -> <<"check_managed_policy_arns",
                                   "check_role_assume_role_policy_document">>
      [] resource_type = InstanceProfile -> <<"check_instance_profile_roles">>

\* cfn.get_resources(resource_type=...): the template's resources of that
\* type, in template order; here as indexes into the template
get_resources(tmpl, resource_type) ==
    SelectSeq([i \in 1..Len(tmpl) |-> i], LAMBDA i : tmpl[i].Type = resource_type)

\* cfn.get_object_without_conditions(properties): the property sets the
\* template object answers for this resource's Properties
get_object_without_conditions(tmpl, i) == tmpl[i].property_sets

\* resource_object.get('Properties', {})
PropertiesOf(resource) ==
    IF resource.HasProperties THEN resource.Properties ELSE [k \in {} |-> None]

PathOf(resource) == <<"Resources", resource.name, "Properties">>

\* matches = []
new_matches_kept(old) == old
new_matches(old) == <<>>

\* the first type at or after index t that has resources; Len(Types) + 1 if none
RECURSIVE FirstFrom(_, _)
FirstFrom(tmpl, t) ==
    IF t > Len(Types) THEN t
    ELSE IF get_resources(tmpl, Types[t]) # <<>> THEN t
    ELSE FirstFrom(tmpl, t + 1)

Resources == get_resources(cfn, Types[ti])
Current == cfn[Resources[ri]]
CurrentCheck == check_list(Types[ti])[ci]

NoCall == [check |-> "none", rtype |-> "", rname |-> "", t |-> 0, r |-> 0, c |-> 0,
           props |-> <<>>, sets |-> <<>>, path |-> <<>>, matches |-> <<>>,
           resolved |-> FALSE, raised |-> FALSE]

\* def match(self, cfn): up to the first check call.  The caller passes the
\* template under test or, between its calls, another template.
Match ==
    /\ pc = "idle"
    /\ \E arg \in {template, OtherTemplate} :
          /\ arg = template => Len(results) < MaxCalls
          /\ cfn' = arg
          /\ LET t == FirstFrom(arg, 1)
             IN /\ ti' = t
                /\ ri' = 1
                /\ ci' = 1
                /\ IF t <= Len(Types)
                   THEN LET first == arg[get_resources(arg, Types[t])[1]]
                        IN path' = PathOf(first) /\ properties' = PropertiesOf(first)
                   ELSE path' = <<>> /\ properties' = <<>>
    /\ pc' = "loop"
    /\ matches' = new_matches(matches)
    /\ origin' = <<>>
    /\ last' = NoCall
    /\ called' = <<>>
    /\ resolver_calls' = 0
    /\ UNCHANGED <<template, results>>

\* the loop headers of lines 167-172 after a check returned
Advance ==
    IF ci < Len(check_list(Types[ti]))
    THEN /\ ci' = ci + 1
         /\ UNCHANGED <<ti, ri, path, properties>>
    ELSE IF ri < Len(Resources)
    THEN /\ ri' = ri + 1
         /\ ci' = 1
         /\ path' = PathOf(cfn[Resources[ri + 1]])
         /\ properties' = PropertiesOf(cfn[Resources[ri + 1]])
         /\ UNCHANGED ti
    ELSE LET t == FirstFrom(cfn, ti + 1)
         IN /\ ti' = t
            /\ ri' = 1
            /\ ci' = 1
            /\ IF t <= Len(Types)
               THEN LET first == cfn[get_resources(cfn, Types[t])[1]]
                    IN path' = PathOf(first) /\ properties' = PropertiesOf(first)
               ELSE UNCHANGED <<path, properties>>

\* matches.extend(check(properties, path, cfn)), line 173
Call(outcome) ==
    /\ last' = [check |-> CurrentCheck, rtype |-> Current.Type, rname |-> Current.name,
                t |-> ti, r |-> ri, c |-> ci,
                props |-> properties, sets |-> Current.property_sets, path |-> path,
                matches |-> outcome.matches,
                resolved |-> outcome.resolved, raised |-> outcome.raised]
    /\ called' = Append(called, [rname |-> Current.name, check |-> CurrentCheck])
    /\ resolver_calls' = resolver_calls + (IF outcome.resolved THEN 1 ELSE 0)
    /\ IF outcome.raised
       THEN /\ pc' = "raised"
            /\ UNCHANGED <<ti, ri, ci, path, properties, matches, origin>>
       ELSE /\ pc' = pc
            /\ matches' = matches \o [k \in 1..Len(outcome.matches) |->
                               [path |-> outcome.matches[k].path,
                                message |-> outcome.matches[k].message]]
            /\ origin' = origin \o [k \in 1..Len(outcome.matches) |->
                               [rtype |-> Current.Type, r |-> ri, check |-> CurrentCheck,
                                rname |-> Current.name,
                                branch |-> outcome.matches[k].branch]]
            /\ Advance
    /\ UNCHANGED <<template, cfn, results>>

AtCheck(name) == pc = "loop" /\ ti <= Len(Types) /\ CurrentCheck = name

CheckManagedPolicyArns ==
    /\ AtCheck("check_managed_policy_arns")
    /\ Call(check_managed_policy_arns(properties, path,
               get_object_without_conditions(cfn, Resources[ri])))

CheckUserGroups ==
    /\ AtCheck("check_user_groups")
    /\ Call(check_user_groups(properties, path,
               get_object_without_conditions(cfn, Resources[ri])))

CheckInstanceProfileRoles ==
    /\ AtCheck("check_instance_profile_roles")
    /\ Call(check_instance_profile_roles(properties, path,
               get_object_without_conditions(cfn, Resources[ri])))

CheckRoleAssumeRolePolicyDocument ==
    /\ AtCheck("check_role_assume_role_policy_document")
    /\ Call(check_role_assume_role_policy_document(properties, path, <<>>))

\* return matches: the caller has the list, the frame of match is gone
Return ==
    /\ pc = "loop"
    /\ ti > Len(Types)
    /\ pc' = "idle"
    /\ results' = IF cfn = template THEN Append(results, matches) ELSE results
    /\ cfn' = template
    /\ ti' = 1
    /\ ri' = 1
    /\ ci' = 1
    /\ path' = <<>>
    /\ properties' = <<>>
    /\ called' = <<>>
    /\ last' = NoCall
    /\ resolver_calls' = 0
    /\ UNCHANGED <<template, matches, origin>>

Next ==
    \/ Match
    \/ CheckManagedPolicyArns
    \/ CheckUserGroups
    \/ CheckInstanceProfileRoles
    \/ CheckRoleAssumeRolePolicyDocument
    \/ Return

Init ==
    /\ template \in Templates
    /\ cfn = template
    /\ pc = "idle"
    /\ ti = 1
    /\ ri = 1
    /\ ci = 1
    /\ path = <<>>
    /\ properties = <<>>
    /\ matches = <<>>
    /\ origin = <<>>
    /\ results = <<>>
    /\ resolver_calls = 0
    /\ called = <<>>
    /\ last = NoCall

Spec == Init /\ [][Next]_vars

----------------------------------------------------------------------------
(* What the specification states, written independently of the checks above *)

ListChecks == {"check_managed_policy_arns", "check_instance_profile_roles",
               "check_user_groups"}

StatedProperty(check) ==
    CASE check = "check_managed_policy_arns" -> "ManagedPolicyArns"
      [] check = "check_instance_profile_roles" -> "Roles"
      [] check = "check_user_groups" -> "Groups"
      [] check = "check_role_assume_role_policy_document" -> "AssumeRolePolicyDocument"

StatedThreshold(check) ==
    CASE check = "check_managed_policy_arns" -> 10
      [] check = "check_instance_profile_roles" -> 1
      [] check = "check_user_groups" -> 10

StatedBaseMessage(check) ==
    CASE check = "check_managed_policy_arns" -> ManagedPolicyArnsMessage
      [] check = "check_instance_profile_roles" -> RolesMessage
      [] check = "check_user_groups" -> GroupsMessage

StatedChecks(resource_type) ==
    CASE resource_type = User -> <<"check_managed_policy_arns", "check_user_groups">>
      [] resource_type = Group -> <<"check_managed_policy_arns">>
      [] resource_type = Role -> <<"check_managed_policy_arns",
                                   "check_role_assume_role_policy_document">>
      [] resource_type = InstanceProfile -> <<"check_instance_profile_roles">>
      [] OTHER -> <<>>

StatedTypeRank(resource_type) ==
    CASE resource_type = User -> 1
      [] resource_type = Group -> 2
      [] resource_type = Role -> 3
      [] resource_type = InstanceProfile -> 4
      [] OTHER -> 5

Range(seq) == {seq[i] : i \in 1..Len(seq)}

IndexIn(seq, x) == CHOOSE i \in 1..Len(seq) : seq[i] = x

\* the value the last check call saw for its property in property set k
LastValue(k) == DictGet(last.sets[k].Object, StatedProperty(last.check))
LastAbove == {k \in 1..Len(last.sets) :
                LastValue(k).t = "list" /\ LastValue(k).len > StatedThreshold(last.check)}
LastListCall == last.check \in ListChecks /\ StatedProperty(last.check) \in DOMAIN last.props
LastFrom(k) == {i \in 1..Len(last.matches) : last.matches[i].branch = k}

\* C1: a list-length check on a property bag that holds its property returns
\* exactly one violation for every property set whose value is a list longer
\* than the threshold (10, 1, 10) and none for a list at or below it, so it
\* returns as many violations as there are property sets above the threshold.
C1_OnePerBranchAboveThreshold ==
    LastListCall =>
        /\ Len(last.matches) = Cardinality(LastAbove)
        /\ \A k \in 1..Len(last.sets) :
              Cardinality(LastFrom(k)) = (IF k \in LastAbove THEN 1 ELSE 0)

C1_Witness ==
    /\ last.check = "check_instance_profile_roles"
    /\ "Roles" \in DOMAIN last.props
    /\ Len(last.sets) = 2
    /\ LastValue(1) = PyList(2)
    /\ LastValue(2) = PyList(1)
    /\ Len(last.matches) = 1

\* ' when "<name1>" is <bool1> and "<name2>" is <bool2> ...'
RECURSIVE StatedTerms(_)
StatedTerms(items) ==
    IF items = <<>> THEN ""
    ELSE "\"" \o items[1][1] \o "\" is " \o BoolText(items[1][2])
           \o (IF Len(items) > 1 THEN " and " \o StatedTerms(Tail(items)) ELSE "")

StatedMessage(check, scenario) ==
    IF scenario.none THEN StatedBaseMessage(check)
    ELSE StatedBaseMessage(check) \o " when " \o StatedTerms(scenario.items)

\* C2: the message of a list-length violation is the base message when the
\* property set has no scenario, and otherwise the base message followed by
\* ' when "<name>" is <True|False>' terms joined with ' and ', in the order
\* of the scenario mapping.
C2_MessageAsStated ==
    last.check \in ListChecks =>
        \A i \in 1..Len(last.matches) :
            last.matches[i].message
              = StatedMessage(last.check, last.sets[last.matches[i].branch].Scenario)

LastDocCall ==
    /\ last.check = "check_role_assume_role_policy_document"
    /\ "AssumeRolePolicyDocument" \in DOMAIN last.props
    /\ ~last.raised
LastDocLen == JsonDumps(last.props["AssumeRolePolicyDocument"]).len

\* C3: the trust-policy check returns at most one violation, with the fixed
\* message, exactly when the raw AssumeRolePolicyDocument serializes to more
\* than 2048 characters (2048 gives none, 2049 gives one), and it never calls
\* the branch resolver.
C3_TrustPolicyBoundary ==
    LastDocCall =>
        /\ Len(last.matches) = (IF LastDocLen > 2048 THEN 1 ELSE 0)
        /\ \A i \in 1..Len(last.matches) : last.matches[i].message = TrustPolicyMessage
        /\ ~last.resolved
        /\ last.props["AssumeRolePolicyDocument"] = PolicyDoc(JDate(10), 2006)
              => last.matches = <<>>
        /\ last.props["AssumeRolePolicyDocument"] = PolicyDoc(JDate(10), 2007)
              => Len(last.matches) = 1

C3_Witness ==
    /\ LastDocCall
    /\ LastDocLen = 2048
    /\ last.matches = <<>>
    /\ last.sets # <<>>

\* the position a violation came from: type, resource, predicate, branch
OriginKey(o) ==
    <<StatedTypeRank(o.rtype), o.r, IndexIn(StatedChecks(o.rtype), o.check), o.branch>>

LexLess(a, b) ==
    \E n \in 1..4 : a[n] < b[n] /\ \A m \in 1..(n - 1) : a[m] = b[m]

\* C4: violations are ordered by resource type in the declared order (User,
\* Group, Role, InstanceProfile), then by resource in selector order, then by
\* predicate in declared order, then by branch in resolver order.
C4_ResultOrder ==
    /\ Len(origin) = Len(matches)
    /\ \A i \in 1..Len(origin) : origin[i].check \in Range(StatedChecks(origin[i].rtype))
    /\ \A i, j \in 1..Len(origin) :
          i < j => LexLess(OriginKey(origin[i]), OriginKey(origin[j]))

C4_Witness ==
    /\ Len(template) = 3
    /\ template[1].Type = InstanceProfile
    /\ template[2].Type = User
    /\ template[3].Type = User
    /\ Len(results) = 1
    /\ Len(results[1]) = 10
    /\ results[1][1].path[2] = template[2].name
    /\ results[1][5].path[2] = template[3].name
    /\ results[1][10].path[2] = template[1].name

RECURSIVE Unserializable(_)
Unserializable(v) ==
    CASE v.t = "object" -> TRUE
      [] v.t = "list" -> \E i \in 1..Len(v.items) : Unserializable(v.items[i])
      [] v.t = "map" -> \E i \in 1..Len(v.items) : Unserializable(v.items[i].value)
      [] OTHER -> FALSE

RECURSIVE HoldsDate(_)
HoldsDate(v) ==
    CASE v.t = "date" -> TRUE
      [] v.t = "list" -> \E i \in 1..Len(v.items) : HoldsDate(v.items[i])
      [] v.t = "map" -> \E i \in 1..Len(v.items) : HoldsDate(v.items[i].value)
      [] OTHER -> FALSE

BadRole(resource) ==
    /\ resource.Type = Role
    /\ resource.HasProperties
    /\ "AssumeRolePolicyDocument" \in DOMAIN resource.Properties
    /\ Unserializable(resource.Properties["AssumeRolePolicyDocument"])

SomeBadRole(tmpl) == \E i \in 1..Len(tmpl) : BadRole(tmpl[i])

\* C5: match raises if and only if some Role's AssumeRolePolicyDocument holds
\* a value that is not a primitive, list, map or date: with such a Role no
\* call returns, without one no call raises (dates included) and every check
\* call returns normally.
C5_RaisesOnlyOnUnserializable ==
    /\ pc = "raised" => SomeBadRole(cfn)
    /\ last.raised => pc = "raised"
    /\ (/\ last.check = "check_role_assume_role_policy_document"
        /\ "AssumeRolePolicyDocument" \in DOMAIN last.props
        /\ HoldsDate(last.props["AssumeRolePolicyDocument"])
        /\ ~Unserializable(last.props["AssumeRolePolicyDocument"])) => ~last.raised
    /\ SomeBadRole(template) => results = <<>>
    /\ (SomeBadRole(cfn) /\ pc = "loop") => ti <= StatedTypeRank(Role)

C5_Witness ==
    /\ pc = "raised"
    /\ cfn = template
    /\ last.check = "check_role_assume_role_policy_document"
    /\ Len(template) = 3
    /\ matches # <<>>

\* C6: two calls of match on the same template return the same ordered
\* violations; a later result holds nothing collected by an earlier call.
C6_Idempotent ==
    \A i, j \in 1..Len(results) : results[i] = results[j]

C6_Witness ==
    /\ Len(results) = 2
    /\ Len(results[1]) >= 2

\* C7: a check whose property is not in the property bag (also when the
\* resource has no Properties at all) returns no violation, raises nothing
\* and does not call the branch resolver.
C7_AbsentIsNoOp ==
    (last.check # "none" /\ StatedProperty(last.check) \notin DOMAIN last.props) =>
        /\ last.matches = <<>>
        /\ ~last.raised
        /\ ~last.resolved

C7_Witness ==
    /\ last.check = "check_user_groups"
    /\ last.props = [k \in {} |-> None]
    /\ \E i \in 1..Len(cfn) : cfn[i].name = last.rname /\ ~cfn[i].HasProperties
    /\ last.sets = LoudSets
    /\ resolver_calls = 0

\* every check of the running call has returned: match is about to return
Returning == pc = "loop" /\ ti > Len(Types)

\* the check calls made for the resource called rname, in order
RECURSIVE ChecksOf(_, _)
ChecksOf(log, rname) ==
    IF log = <<>> THEN <<>>
    ELSE (IF log[1].rname = rname THEN <<log[1].check>> ELSE <<>>)
           \o ChecksOf(Tail(log), rname)

\* C8: a User is checked by exactly [ManagedPolicyArns, Groups], a Group by
\* [ManagedPolicyArns], a Role by [ManagedPolicyArns, AssumeRolePolicyDocument],
\* an InstanceProfile by [Roles], any other type by nothing; every violation
\* is on a (type, property) pair of that table.
C8_DispatchTable ==
    /\ \A n \in 1..Len(called) :
          \E i \in 1..Len(cfn) :
              /\ cfn[i].name = called[n].rname
              /\ called[n].check \in Range(StatedChecks(cfn[i].Type))
    /\ Returning =>
          \A i \in 1..Len(cfn) :
              ChecksOf(called, cfn[i].name) = StatedChecks(cfn[i].Type)
    /\ \A r \in 1..Len(results) : \A n \in 1..Len(results[r]) :
          \E i \in 1..Len(template) :
              /\ template[i].name = results[r][n].path[2]
              /\ \E c \in Range(StatedChecks(template[i].Type)) :
                    results[r][n].path[Len(results[r][n].path)] = StatedProperty(c)

C8_Witness ==
    /\ pc = "idle"
    /\ Len(template) = 1
    /\ template[1].Type = Group
    /\ template[1].Properties = BagOf(ListProperties, None)
    /\ Len(template[1].property_sets) = 1
    /\ template[1].property_sets[1].Object = [k \in ListProperties |-> PyList(11)]
    /\ Len(results) = 1
    /\ Len(results[1]) = 1

\* the template of the example: a User MyUser with 11 ManagedPolicyArns
MyUserTemplate ==
    /\ Len(template) = 1
    /\ template[1].name = "MyUser"
    /\ template[1].Type = User
    /\ template[1].Properties = BagOf({"ManagedPolicyArns"}, None)
    /\ Len(template[1].property_sets) = 1
    /\ DictGet(template[1].property_sets[1].Object, "ManagedPolicyArns") = PyList(11)
    /\ template[1].property_sets[1].Scenario = NoScenario

\* C9: every violation has the path ["Resources", <name of the resource whose
\* branch violated>, "Properties", <property of the check that fired>], the
\* path built for a resource stays as built, and a User MyUser with 11
\* unconditional ManagedPolicyArns gets exactly one violation, at
\* ["Resources", "MyUser", "Properties", "ManagedPolicyArns"].
C9_ViolationPath ==
    /\ Len(origin) = Len(matches)
    /\ \A n \in 1..Len(matches) :
          matches[n].path = <<"Resources", origin[n].rname, "Properties",
                              StatedProperty(origin[n].check)>>
    /\ (pc = "loop" /\ ti <= Len(Types)) =>
          path = <<"Resources", Current.name, "Properties">>
    /\ (MyUserTemplate /\ results # <<>>) =>
          results[1] = <<[path |-> <<"Resources", "MyUser", "Properties",
                                     "ManagedPolicyArns">>,
                          message |-> ManagedPolicyArnsMessage]>>

C9_Witness ==
    /\ MyUserTemplate
    /\ Len(results) = 1
    /\ Len(results[1]) = 1

\* C10: a list-length check never flags a property set whose value for the
\* property is a string, a map or missing, raises nothing on it, and still
\* flags the other property sets of the same resource.
C10_NonListNeverFlagged ==
    LastListCall =>
        /\ ~last.raised
        /\ \A k \in 1..Len(last.sets) :
              LastValue(k).t # "list" => LastFrom(k) = {}
        /\ \A k \in LastAbove : LastFrom(k) # {}

C10_Witness ==
    /\ last.check = "check_managed_policy_arns"
    /\ "ManagedPolicyArns" \in DOMAIN last.props
    /\ Len(last.sets) = 2
    /\ LastValue(1) = PyStr(20)
    /\ LastValue(2) = PyList(11)
    /\ Len(last.matches) = 1
    /\ last.matches[1].branch = 2

====
